---- MODULE Spec2Model ----
(***************************************************************************)
(* Model of aiida_cusp.calculators.calculation_base.CalculationBase:       *)
(* the submission plan (prepare_for_submission), the VASP run line         *)
(* (vasp_run_line, vasp_calc_mpi_args) and the restart synchronisation     *)
(* (remote_filelist, restart_files_exclude, restart_copy_remote).          *)
(*                                                                         *)
(* Paths are sequences of components: './a/OUTCAR' is <<".","a","OUTCAR">>.*)
(* A Python dict or AttributeDict is a function whose DOMAIN is the set of *)
(* keys that were assigned.  An optional value is <<>> (None) or <<v>>.    *)
(***************************************************************************)
EXTENDS Naturals, Integers, Sequences, FiniteSets, TLC

VARIABLES
    \* remote restart folder (RemoteData) and the transport behind it
    rfiles,              \* paths of the leaf files below the remote folder
    rdirs,               \* paths of the directories below the remote folder
    fault,               \* the listing call the transport fails on, if any
    \* inputs of the calculation
    custodian_code,      \* inputs.custodian.code: <<>> or <<uuid>>
    withmpi,             \* inputs.metadata.options.withmpi
    restart_folder,      \* TRUE iff inputs.restart.folder was supplied
    contcar_to_poscar,   \* inputs.restart.contcar_to_poscar
    resources,           \* inputs.metadata.options.resources (dict)
    default_cpus_machine,\* computer.get_default_mpiprocs_per_machine()
    mpirun_command,      \* computer.get_mpirun_command()
    mpirun_extra_params, \* inputs.metadata.options.mpirun_extra_params
    \* sandbox folder of the new calculation
    staging,             \* directories existing below folder.abspath
    \* results
    pc,                  \* "call", "returned" or "raised"
    exception,           \* the exception a raised call ended with
    codes_info,          \* calcinfo.codes_info
    filelist,            \* value returned by remote_filelist
    transport_failed,    \* a listing call ended in a transport failure
    remote_copy_list,    \* calcinfo.remote_copy_list
    job_resource,        \* the scheduler's job resource
    queried,             \* vasp_calc_mpi_args was entered
    run_line,            \* value returned by vasp_run_line
    \* concurrent directory pre-creation
    mk_dirs,             \* per submission: relative directories of its entries
    mk_todo,             \* per submission: those still to do
    mk_pc                \* per submission: position in lines 282-284

vars == <<rfiles, rdirs, fault, custodian_code, withmpi, restart_folder,
          contcar_to_poscar, resources, default_cpus_machine, mpirun_command,
          mpirun_extra_params, staging, pc, exception, codes_info, filelist,
          transport_failed, remote_copy_list, job_resource, queried, run_line,
          mk_dirs, mk_todo, mk_pc>>

remoteVars == <<rfiles, rdirs, fault>>
planInputs == <<custodian_code, withmpi, restart_folder, contcar_to_poscar>>
runInputs  == <<default_cpus_machine, mpirun_command, mpirun_extra_params>>
syncVars   == <<filelist, transport_failed, remote_copy_list>>
runVars    == <<resources, job_resource, queried, run_line>>
mkVars     == <<mk_dirs, mk_todo, mk_pc>>

----------------------------------------------------------------------------
(* Bounds *)

MaxFiles == 3        \* leaf files in the remote folder

----------------------------------------------------------------------------
(* File names *)

CONTCAR == "CONTCAR"
POSCAR == "POSCAR"
CSTDN_SPEC_FNAME == "cstdn_spec.yaml"
STDOUT_FNAME == "aiida.out"
STDERR_FNAME == "aiida.err"
submit_script_filename == "_aiidasubmit.sh"

RemotePath == "/scratch/parent_calc"
RemoteCompUuid == "computer-uuid"

\* directories and file names the remote folder is drawn from
RemoteDirs == {<<>>, <<"a">>, <<"b">>, <<"a", "job_tmpl.json">>}
FileNames == {"CONTCAR", "OUTCAR", "job_tmpl.json"}

----------------------------------------------------------------------------
(* Paths *)

IsPrefix(d, p) == Len(d) <= Len(p) /\ SubSeq(p, 1, Len(d)) = d

Front(p) == SubSeq(p, 1, Len(p) - 1)

\* the non-empty prefixes of p
Prefixes(p) == {SubSeq(p, 1, n) : n \in 1..Len(p)}

\* the node a path addresses: '.' components name the directory itself
Resolve(p) == SelectSeq(p, LAMBDA c : c # ".")

\* str(pathlib.Path(p)): '.' components are dropped, the empty path is '.'
Norm(p) == IF Resolve(p) = <<>> THEN <<".">> ELSE Resolve(p)

\* all orders in which the entries of a directory can be returned
Perms(S) ==
    {f \in [1..Cardinality(S) -> S] :
        \A i, j \in 1..Cardinality(S) : i # j => f[i] # f[j]}

----------------------------------------------------------------------------
(* RemoteData.listdir and remote_filelist *)

Children(d) ==
    {p[Len(d) + 1] : p \in {q \in rfiles \cup rdirs :
                                Len(q) = Len(d) + 1 /\ IsPrefix(d, q)}}

\* remote_data.listdir(relpath=relpath): the entries of a directory, an
\* OSError with errno ENOTDIR for a file, or the transport's own failure
listdir(relpath) ==
    LET node == Resolve(relpath) IN
    IF fault.kind # "none" /\ fault.path = node
    THEN [exc |-> fault.kind, entries |-> {}]
    ELSE IF node \in rfiles
    THEN [exc |-> "NotADirectoryError", entries |-> {}]
    ELSE [exc |-> "none", entries |-> Children(node)]

\* the exceptions `except OSError` catches
IsOSError(exc) == exc \in {"NotADirectoryError", "OSError"}

\* FileEntry without line 215: the relative path as it was passed in
FileEntryAsPassed(path, subpath, relpath) ==
    <<path, <<RemotePath>> \o Resolve(subpath), relpath>>

\* the tuple appended for a path whose listing raised OSError
FileEntry(path, subpath, relpath) ==
    <<path, <<RemotePath>> \o Resolve(subpath), Norm(relpath)>>

\* the relpath the loop goes on with after an OSError
RelpathAfterFile(relpath) == Norm(relpath)

RECURSIVE remote_filelist(_), ForEachPath(_, _, _, _, _)

\* the set of outcomes of remote_filelist(remote_data, relpath), one for
\* each order the listings can return their entries in
remote_filelist(relpath) ==
    LET l == listdir(relpath) IN
    IF l.exc # "none"
    THEN {[exc |-> l.exc, files |-> <<>>,
           failed |-> l.exc # "NotADirectoryError"]}
    ELSE UNION {ForEachPath(order, 1, relpath, <<>>, FALSE) :
                    order \in Perms(l.entries)}

\* the for loop of remote_filelist from its i-th iteration on
ForEachPath(order, i, relpath, files, failed) ==
    IF i > Len(order)
    THEN {[exc |-> "none", files |-> files, failed |-> failed]}
    ELSE
        LET path == order[i]
            subpath == Append(relpath, path)
        IN UNION {
            IF r.exc = "none"
            THEN ForEachPath(order, i + 1, relpath, files \o r.files,
                             failed \/ r.failed)
            ELSE IF IsOSError(r.exc)
            THEN ForEachPath(order, i + 1, RelpathAfterFile(relpath),
                             Append(files, FileEntry(path, subpath, relpath)),
                             failed \/ r.failed)
            ELSE {[exc |-> r.exc, files |-> <<>>, failed |-> TRUE]}
            : r \in remote_filelist(subpath)}

----------------------------------------------------------------------------
(* restart_files_exclude and restart_copy_remote *)

\* restart_files_exclude without the job template
restart_files_exclude_no_tmpl ==
    {submit_script_filename, CSTDN_SPEC_FNAME, "calcinfo.json"}

restart_files_exclude ==
    {submit_script_filename, CSTDN_SPEC_FNAME, "job_tmpl.json",
     "calcinfo.json"}

\* TargetName without the test of overwrite_poscar
TargetNameAlways(name, overwrite_poscar) ==
    IF name = CONTCAR THEN POSCAR ELSE name

\* the target name of a copied file
TargetName(name, overwrite_poscar) ==
    IF name = CONTCAR /\ overwrite_poscar THEN POSCAR ELSE name

\* (remote_comp_uuid, abspath, file_relpath)
RemoteCopyEntry(name, abspath, relpath) ==
    <<RemoteCompUuid, abspath, Append(relpath, name)>>

\* pathlib.Path(folder.abspath) / relpath
ParentFolder(relpath) == Resolve(relpath)

\* file_parent_folder.exists()
Exists(dirs, folder) == folder = <<>> \/ folder \in dirs

\* Mkdir without parents=True
MkdirNoParents(dirs, folder) ==
    IF folder = <<>> \/ folder \in dirs
    THEN [exc |-> "FileExistsError", dirs |-> dirs]
    ELSE [exc |-> "none", dirs |-> dirs \cup {folder}]

\* file_parent_folder.mkdir(parents=True): missing parents are created,
\* an existing target is a FileExistsError
Mkdir(dirs, folder) ==
    IF Exists(dirs, folder)
    THEN [exc |-> "FileExistsError", dirs |-> dirs]
    ELSE [exc |-> "none", dirs |-> dirs \cup Prefixes(folder)]

RECURSIVE CopyLoop(_, _, _, _)

\* the for loop of restart_copy_remote from its i-th iteration on
CopyLoop(files, i, copylist, dirs) ==
    IF i > Len(files)
    THEN [exc |-> "none", copylist |-> copylist, dirs |-> dirs]
    ELSE
        LET name == files[i][1]
            abspath == files[i][2]
            relpath == files[i][3]
        IN  IF name \in restart_files_exclude
            THEN CopyLoop(files, i + 1, copylist, dirs)
            ELSE
                LET entry == RemoteCopyEntry(
                                 TargetName(name, contcar_to_poscar),
                                 abspath, relpath)
                    folder == ParentFolder(relpath)
                    made == Mkdir(dirs, folder)
                IN  IF Exists(dirs, folder)
                    THEN CopyLoop(files, i + 1, Append(copylist, entry), dirs)
                    ELSE IF made.exc # "none"
                    THEN [exc |-> made.exc,
                          copylist |-> Append(copylist, entry), dirs |-> dirs]
                    ELSE CopyLoop(files, i + 1, Append(copylist, entry),
                                  made.dirs)

\* self.restart_copy_remote(folder, calcinfo), calcinfo.remote_copy_list
\* being copylist at the call
RestartCopyRemote(copylist) ==
    \E r \in remote_filelist(<<".">>) :
        /\ transport_failed' = r.failed
        /\ IF r.exc # "none"
           THEN /\ pc' = "raised"
                /\ exception' = r.exc
                /\ filelist' = <<>>
                /\ remote_copy_list' = copylist
                /\ UNCHANGED staging
           ELSE LET done == CopyLoop(r.files, 1, copylist, staging)
                IN  /\ filelist' = r.files
                    /\ remote_copy_list' = done.copylist
                    /\ staging' = done.dirs
                    /\ pc' = IF done.exc = "none" THEN "returned" ELSE "raised"
                    /\ exception' = done.exc

restart_copy_remote ==
    /\ pc = "call"
    /\ RestartCopyRemote(remote_copy_list)
    /\ UNCHANGED <<remoteVars, planInputs, runInputs, runVars, mkVars,
                   codes_info>>

----------------------------------------------------------------------------
(* Remote folders and sandboxes the calls start from *)

Candidates == {Append(d, f) : d \in RemoteDirs, f \in FileNames}

\* no path is a file and a directory at once
Consistent(files, dirs) ==
    \A f \in files : \A p \in files \cup dirs : ~(p # f /\ IsPrefix(f, p))

DirsOf(files, empty) ==
    (UNION {Prefixes(Front(f)) : f \in files})
        \cup (UNION {Prefixes(d) : d \in empty})

Folders ==
    {t \in [files : {F \in SUBSET Candidates : Cardinality(F) <= MaxFiles},
            empty : {{}} \cup {{d} : d \in RemoteDirs \ {<<>>}}] :
        Consistent(t.files, DirsOf(t.files, t.empty))}

\* the listing calls the transport may fail on, and how
Faults(files, dirs) ==
    {[kind |-> "none", path |-> <<>>]}
        \cup [kind : {"OSError", "Exception"},
              path : files \cup dirs \cup {<<>>}]

Sandboxes == {{}, {<<"a">>}}

NoRun ==
    /\ resources = <<>>
    /\ default_cpus_machine = <<>>
    /\ mpirun_command = <<>>
    /\ mpirun_extra_params = <<>>
    /\ job_resource = <<>>
    /\ queried = FALSE
    /\ run_line = <<>>

NoMk ==
    /\ mk_dirs = <<>>
    /\ mk_todo = <<>>
    /\ mk_pc = <<>>

NoResult ==
    /\ pc = "call"
    /\ exception = "none"
    /\ filelist = <<>>
    /\ transport_failed = FALSE
    /\ remote_copy_list = <<>>

\* restart_copy_remote called on a fresh calcinfo
InitSync ==
    /\ \E t \in Folders :
        /\ rfiles = t.files
        /\ rdirs = DirsOf(t.files, t.empty)
        /\ fault \in Faults(t.files, DirsOf(t.files, t.empty))
    /\ custodian_code = <<>>
    /\ withmpi = TRUE
    /\ restart_folder = TRUE
    /\ contcar_to_poscar \in BOOLEAN
    /\ staging \in Sandboxes
    /\ codes_info = <<>>
    /\ NoResult
    /\ NoRun
    /\ NoMk

NextSync == restart_copy_remote

SpecSync == InitSync /\ [][NextSync]_vars

----------------------------------------------------------------------------
(* prepare_for_submission *)

VaspCodeUuid == "vasp-code-uuid"
CustodianCodeUuid == "custodian-code-uuid"

\* BuildCodeInfo handing the caller's withmpi on to the custodian code
BuildCodeInfoCustodianMpi(custodian) ==
    IF custodian = <<>>
    THEN [code_uuid |-> VaspCodeUuid,
          stdout_name |-> STDOUT_FNAME,
          stderr_name |-> STDERR_FNAME]
    ELSE [code_uuid |-> custodian[1],
          cmdline_params |-> <<"run", CSTDN_SPEC_FNAME>>,
          withmpi |-> withmpi]

\* BuildCodeInfo storing the caller's withmpi for the VASP code
BuildCodeInfoVaspMpi(custodian) ==
    IF custodian = <<>>
    THEN [code_uuid |-> VaspCodeUuid,
          stdout_name |-> STDOUT_FNAME,
          stderr_name |-> STDERR_FNAME,
          withmpi |-> withmpi]
    ELSE [code_uuid |-> custodian[1],
          cmdline_params |-> <<"run", CSTDN_SPEC_FNAME>>,
          withmpi |-> FALSE]

\* the CodeInfo of lines 116-131: only the fields assigned are keys
BuildCodeInfo(custodian) ==
    IF custodian = <<>>
    THEN [code_uuid |-> VaspCodeUuid,
          stdout_name |-> STDOUT_FNAME,
          stderr_name |-> STDERR_FNAME]
    ELSE [code_uuid |-> custodian[1],
          cmdline_params |-> <<"run", CSTDN_SPEC_FNAME>>,
          withmpi |-> FALSE]

\* hook of the calculation classes: the restart inputs are the files
\* copied from the restart folder
create_inputs_for_restart_run(copylist) == RestartCopyRemote(copylist)

\* hook of the calculation classes: the inputs are written to the sandbox
\* and the plan is left as it is
create_inputs_for_regular_run(copylist) ==
    /\ pc' = "returned"
    /\ remote_copy_list' = copylist
    /\ UNCHANGED <<exception, filelist, transport_failed, staging>>

prepare_for_submission ==
    /\ pc = "call"
    /\ codes_info' = <<BuildCodeInfo(custodian_code)>>
    /\ IF restart_folder
       THEN create_inputs_for_restart_run(<<>>)
       ELSE create_inputs_for_regular_run(<<>>)
    /\ UNCHANGED <<remoteVars, planInputs, runInputs, runVars, mkVars>>

PlanFolders == {t \in Folders : Cardinality(t.files) <= 1}

InitPlan ==
    /\ \E t \in PlanFolders :
        /\ rfiles = t.files
        /\ rdirs = DirsOf(t.files, t.empty)
        /\ fault \in Faults(t.files, DirsOf(t.files, t.empty))
    /\ custodian_code \in {<<>>, <<CustodianCodeUuid>>}
    /\ withmpi \in BOOLEAN
    /\ restart_folder \in BOOLEAN
    /\ contcar_to_poscar \in BOOLEAN
    /\ staging \in Sandboxes
    /\ codes_info = <<>>
    /\ NoResult
    /\ NoRun
    /\ NoMk

NextPlan == prepare_for_submission

SpecPlan == InitPlan /\ [][NextPlan]_vars

----------------------------------------------------------------------------
(* vasp_calc_mpi_args and vasp_run_line *)

MaxProcs == 2        \* largest machine and process count of a request

ExecName == "vasp_std"

ResourceKeys ==
    {"num_machines", "num_mpiprocs_per_machine", "tot_num_mpiprocs",
     "default_mpiprocs_per_machine"}

\* dict.get(key): <<>> for a missing key
Get(dict, key) == IF key \in DOMAIN dict THEN <<dict[key]>> ELSE <<>>

\* InjectDefault storing the default as the per-node count itself
InjectDefaultAsPerNode(request, default) ==
    IF default # <<>>
    THEN [k \in DOMAIN request \cup {"default_mpiprocs_per_machine",
                                      "num_mpiprocs_per_machine"} |->
            IF k \in {"default_mpiprocs_per_machine",
                      "num_mpiprocs_per_machine"}
            THEN default[1] ELSE request[k]]
    ELSE request

\* lines 162-163: the computer's default is stored in the request
InjectDefault(request, default) ==
    IF default # <<>>
    THEN [k \in DOMAIN request \cup {"default_mpiprocs_per_machine"} |->
            IF k = "default_mpiprocs_per_machine"
            THEN default[1] ELSE request[k]]
    ELSE request

\* scheduler.create_job_resource(**resources) of a scheduler that counts
\* nodes (aiida's NodeNumberJobResource)
create_job_resource(request) ==
    LET machines == Get(request, "num_machines")
        permachine == Get(request, "num_mpiprocs_per_machine")
        total == Get(request, "tot_num_mpiprocs")
        default == Get(request, "default_mpiprocs_per_machine")
        per == IF permachine # <<>> THEN permachine
               ELSE IF machines # <<>> /\ total # <<>>
               THEN <<total[1] \div machines[1]>>
               ELSE default
        num == IF machines # <<>> THEN machines
               ELSE IF per # <<>> /\ total # <<>> /\ per[1] > 0
               THEN <<total[1] \div per[1]>>
               ELSE <<>>
        tot == IF total # <<>> THEN total
               ELSE IF per # <<>> /\ num # <<>> THEN <<num[1] * per[1]>>
               ELSE <<>>
    IN  IF per = <<>> \/ num = <<>> \/ tot = <<>>
        THEN [exc |-> "TypeError", value |-> <<>>]
        ELSE IF per[1] <= 0 \/ num[1] <= 0 \/ tot[1] # num[1] * per[1]
        THEN [exc |-> "ValueError", value |-> <<>>]
        ELSE [exc |-> "none",
              value |-> <<[num_machines |-> num[1],
                           num_mpiprocs_per_machine |-> per[1]]>>]

\* the replacement field of a token of the mpirun command, "" for none
FieldOf(arg) ==
    CASE arg = "{tot_num_mpiprocs}" -> "tot_num_mpiprocs"
      [] arg = "{num_machines}" -> "num_machines"
      [] arg = "{num_mpiprocs_per_machine}" -> "num_mpiprocs_per_machine"
      [] arg = "{num_cores_per_mpiproc}" -> "num_cores_per_mpiproc"
      [] OTHER -> ""

\* arg.format(**mpi_arg_dict)
Format(arg, mpi_arg_dict) ==
    IF FieldOf(arg) = "" THEN arg ELSE ToString(mpi_arg_dict[FieldOf(arg)])

\* lines 165-168
MpiArgDict(job) ==
    [k \in {"tot_num_mpiprocs"} \cup DOMAIN job |->
        IF k = "tot_num_mpiprocs"
        THEN job.num_machines * job.num_mpiprocs_per_machine
        ELSE job[k]]

\* vasp_calc_mpi_args(): the request as the call leaves it, the job
\* resource, and the returned (mpi_base_args, mpi_extra_args)
vasp_calc_mpi_args ==
    LET request == InjectDefault(resources, default_cpus_machine)
        job == create_job_resource(request)
    IN  IF job.exc # "none"
        THEN [exc |-> job.exc, resources |-> request, job |-> <<>>,
              base |-> <<>>, extra |-> <<>>]
        ELSE LET dict == MpiArgDict(job.value[1]) IN
             IF \E i \in 1..Len(mpirun_command) :
                    FieldOf(mpirun_command[i]) \notin DOMAIN dict \cup {""}
             THEN [exc |-> "KeyError", resources |-> request,
                   job |-> job.value, base |-> <<>>, extra |-> <<>>]
             ELSE [exc |-> "none", resources |-> request, job |-> job.value,
                   base |-> [i \in 1..Len(mpirun_command) |->
                                Format(mpirun_command[i], dict)],
                   extra |-> mpirun_extra_params]

\* RunLine with the extra parameters ahead of the launcher
RunLineExtraFirst(mpicmd, mpiextra, vasp_exec) ==
    mpiextra \o mpicmd \o vasp_exec

\* line 188
RunLine(mpicmd, mpiextra, vasp_exec) == mpicmd \o mpiextra \o vasp_exec

vasp_run_line ==
    /\ pc = "call"
    /\ LET vasp_exec == <<ExecName>> IN
       IF withmpi
       THEN LET args == vasp_calc_mpi_args IN
            /\ queried' = TRUE
            /\ resources' = args.resources
            /\ job_resource' = args.job
            /\ exception' = args.exc
            /\ IF args.exc # "none"
               THEN pc' = "raised" /\ UNCHANGED run_line
               ELSE /\ pc' = "returned"
                    /\ run_line' = RunLine(args.base, args.extra, vasp_exec)
       ELSE /\ run_line' = vasp_exec
            /\ pc' = "returned"
            /\ UNCHANGED <<queried, resources, job_resource, exception>>
    /\ UNCHANGED <<remoteVars, planInputs, runInputs, syncVars, mkVars,
                   staging, codes_info>>

Requests ==
    UNION {[K -> 1..MaxProcs] : K \in SUBSET ResourceKeys}

MpirunCommands ==
    {<<"mpirun", "-np", "{tot_num_mpiprocs}">>,
     <<"srun", "-N", "{num_machines}", "--ntasks-per-node",
       "{num_mpiprocs_per_machine}">>,
     <<"aprun", "-d", "{num_cores_per_mpiproc}">>}

ExtraParams == {<<>>, <<"--bind-to", "core">>}

InitRun ==
    /\ rfiles = {}
    /\ rdirs = {}
    /\ fault = [kind |-> "none", path |-> <<>>]
    /\ custodian_code = <<CustodianCodeUuid>>
    /\ withmpi \in BOOLEAN
    /\ restart_folder = FALSE
    /\ contcar_to_poscar = TRUE
    /\ staging = {}
    /\ codes_info = <<>>
    /\ NoResult
    /\ resources \in Requests
    /\ default_cpus_machine \in {<<>>} \cup {<<n>> : n \in 1..MaxProcs}
    /\ mpirun_command \in MpirunCommands
    /\ mpirun_extra_params \in ExtraParams
    /\ job_resource = <<>>
    /\ queried = FALSE
    /\ run_line = <<>>
    /\ NoMk

NextRun == vasp_run_line

SpecRun == InitRun /\ [][NextRun]_vars

----------------------------------------------------------------------------
(* Lines 282-284 run by two submissions on one sandbox folder *)

MaxEntries == 2      \* entries each submission creates folders for

Submissions == {1, 2}

\* the relative directories remote_filelist reports
RelDirs == {Norm(d) : d \in RemoteDirs}

\* line 283: if not file_parent_folder.exists()
CheckExists(s) ==
    /\ mk_pc[s] = "exists"
    /\ IF Exists(staging, ParentFolder(Head(mk_todo[s])))
       THEN /\ mk_todo' = [mk_todo EXCEPT ![s] = Tail(@)]
            /\ mk_pc' = [mk_pc EXCEPT ![s] =
                            IF Tail(mk_todo[s]) = <<>> THEN "done" ELSE "exists"]
       ELSE /\ mk_pc' = [mk_pc EXCEPT ![s] = "mkdir"]
            /\ UNCHANGED mk_todo
    /\ UNCHANGED <<mk_dirs, remoteVars, planInputs, runInputs, syncVars, runVars,
                   staging, pc, exception, codes_info>>

\* line 284: file_parent_folder.mkdir(parents=True)
DoMkdir(s) ==
    /\ mk_pc[s] = "mkdir"
    /\ LET made == Mkdir(staging, ParentFolder(Head(mk_todo[s]))) IN
       IF made.exc # "none"
       THEN /\ mk_pc' = [mk_pc EXCEPT ![s] = "raised"]
            /\ UNCHANGED <<mk_todo, staging>>
       ELSE /\ staging' = made.dirs
            /\ mk_todo' = [mk_todo EXCEPT ![s] = Tail(@)]
            /\ mk_pc' = [mk_pc EXCEPT ![s] =
                            IF Tail(mk_todo[s]) = <<>> THEN "done" ELSE "exists"]
    /\ UNCHANGED <<mk_dirs, remoteVars, planInputs, runInputs, syncVars,
                   runVars, pc, exception, codes_info>>

InitMkdir ==
    /\ rfiles = {}
    /\ rdirs = {}
    /\ fault = [kind |-> "none", path |-> <<>>]
    /\ custodian_code = <<>>
    /\ withmpi = TRUE
    /\ restart_folder = TRUE
    /\ contcar_to_poscar = TRUE
    /\ staging \in Sandboxes
    /\ codes_info = <<>>
    /\ NoResult
    /\ NoRun
    /\ mk_dirs \in [Submissions ->
                      UNION {[1..n -> RelDirs] : n \in 1..MaxEntries}]
    /\ mk_todo = mk_dirs
    /\ mk_pc = [s \in Submissions |-> "exists"]

NextMkdir == \E s \in Submissions : CheckExists(s) \/ DoMkdir(s)

SpecMkdir == InitMkdir /\ [][NextMkdir]_vars

----------------------------------------------------------------------------
(* Properties of the restart synchronisation (SpecSync) *)

Entries(list) == {list[i] : i \in 1..Len(list)}

\* the file name and the directory a remote absolute path ends in
NameOf(abspath) == abspath[Len(abspath)]
RelDirOf(abspath) ==
    IF Len(abspath) = 2 THEN <<".">> ELSE SubSeq(abspath, 2, Len(abspath) - 1)

\* C1: a transport failure of any listing call of the synchronisation ends
\* the whole call in an error: nothing is recorded for the failing path,
\* nothing is appended to calcinfo.remote_copy_list and no directory is
\* created in the sandbox.
C1_TransportFailureAborts ==
    [][transport_failed' =>
            /\ pc' = "raised"
            /\ filelist' = <<>>
            /\ remote_copy_list' = remote_copy_list
            /\ staging' = staging]_vars

\* C2: when listings fail only with 'not a directory' at the leaf files,
\* remote_filelist returns, for every order of the listings, exactly one
\* tuple per leaf file and none for a directory, holding the file's name,
\* its absolute path and the normalised relative path of its parent.
C2_FilelistIsTheLeafFiles ==
    (pc # "call" /\ fault.kind = "none") =>
        /\ exception = "none"
        /\ Len(filelist) = Cardinality(rfiles)
        /\ Entries(filelist) =
              {<<f[Len(f)], <<RemotePath>> \o f,
                 IF Len(f) = 1 THEN <<".">> ELSE Front(f)>> : f \in rfiles}

\* a file of directory a was recorded before the files of a's subdirectory
C2_Witness ==
    /\ pc = "returned"
    /\ fault.kind = "none"
    /\ \E i, j \in 1..Len(filelist) :
          /\ i < j
          /\ filelist[i][3] = <<"a">>
          /\ filelist[j][3] = <<"a", "job_tmpl.json">>
          /\ \E k \in 1..Len(filelist) : k > j /\ filelist[k][3] = <<"a">>

\* C3: no entry of calcinfo.remote_copy_list comes from a remote file whose
\* name is in the exclusion set, at any depth; a file in a directory that
\* has an excluded name is copied; every other leaf file has exactly one
\* entry (in a call none of whose listings failed in transport).
C3_ExcludedNeverCopied ==
    pc = "returned" =>
        /\ \A e \in Entries(remote_copy_list) :
              NameOf(e[2]) \notin {"_aiidasubmit.sh", "cstdn_spec.yaml",
                                   "job_tmpl.json", "calcinfo.json"}
        /\ ~transport_failed =>
              /\ \A f \in rfiles :
                    f[Len(f)] \notin {"_aiidasubmit.sh", "cstdn_spec.yaml",
                                      "job_tmpl.json", "calcinfo.json"}
                    => Cardinality({i \in 1..Len(remote_copy_list) :
                          remote_copy_list[i][2] = <<RemotePath>> \o f}) = 1
              /\ \A e \in Entries(remote_copy_list) : Tail(e[2]) \in rfiles

\* an excluded file two levels down is skipped while its sibling, and a file
\* in the directory named job_tmpl.json, are copied
C3_Witness ==
    /\ pc = "returned"
    /\ ~transport_failed
    /\ <<"a", "job_tmpl.json", "job_tmpl.json">> \in rfiles
    /\ <<"b", "job_tmpl.json">> \in rfiles
    /\ \E e \in Entries(remote_copy_list) :
          e[2] = <<RemotePath, "a", "job_tmpl.json", "OUTCAR">>

Scenario == {<<"a", "CONTCAR">>, <<"a", "OUTCAR">>, <<"b", "job_tmpl.json">>}

\* C4: the destination of every entry is the relative directory of its
\* source followed by the destination file name, which is POSCAR iff the
\* source is named CONTCAR and contcar_to_poscar is set, and the source name
\* otherwise; the source path keeps its name.  The folder {a/CONTCAR,
\* a/OUTCAR, b/job_tmpl.json} with the flag set yields the destinations
\* {a/POSCAR, a/OUTCAR}.
C4_DestinationAndRename ==
    pc = "returned" =>
        /\ \A e \in Entries(remote_copy_list) :
              /\ e[1] = RemoteCompUuid
              /\ Tail(e[2]) \in rfiles \cup rdirs
              /\ Front(e[3]) = RelDirOf(e[2])
              /\ e[3][Len(e[3])] =
                    IF NameOf(e[2]) = "CONTCAR" /\ contcar_to_poscar
                    THEN "POSCAR" ELSE NameOf(e[2])
        /\ (rfiles = Scenario /\ contcar_to_poscar /\ ~transport_failed) =>
              /\ Len(remote_copy_list) = 2
              /\ {e[3] : e \in Entries(remote_copy_list)} =
                    {<<"a", "POSCAR">>, <<"a", "OUTCAR">>}
              /\ {e[2] : e \in Entries(remote_copy_list)} =
                    {<<RemotePath, "a", "CONTCAR">>,
                     <<RemotePath, "a", "OUTCAR">>}

\* the scenario's folder was synchronised with the rename enabled
C4_Witness ==
    /\ pc = "returned"
    /\ rfiles = Scenario
    /\ contcar_to_poscar
    /\ fault.kind = "none"
    /\ \E e \in Entries(remote_copy_list) : e[3] = <<"a", "POSCAR">>

\* C6: when restart_copy_remote returns, the relative directory of every
\* entry's destination exists in the sandbox with all its parents; no
\* directory that existed is removed and none causes a FileExistsError.
C6_ParentFoldersExist ==
    [][/\ staging \subseteq staging'
       /\ exception' # "FileExistsError"
       /\ pc' = "returned" =>
            \A e \in Entries(remote_copy_list') :
                Prefixes(Resolve(Front(e[3]))) \subseteq staging']_vars

\* directories a and a/job_tmpl.json and b exist after a call that copied
\* into each of them; b never exists beforehand
C6_Witness ==
    /\ pc = "returned"
    /\ \E e \in Entries(remote_copy_list) : Front(e[3]) = <<"b">>
    /\ \E e \in Entries(remote_copy_list) :
          Front(e[3]) = <<"a", "job_tmpl.json">>
    /\ {<<"a">>, <<"a", "job_tmpl.json">>, <<"b">>} \subseteq staging

----------------------------------------------------------------------------
(* Properties of the concurrent directory creation (SpecMkdir) *)

\* C5: run several times, or by two submissions interleaved between the
\* existence check and the creation, lines 282-284 never end in an error,
\* and the directories of a finished submission exist.
C5_MkdirNeverRaises ==
    \A s \in Submissions :
        /\ mk_pc[s] # "raised"
        /\ mk_pc[s] = "done" =>
              \A i \in 1..Len(mk_dirs[s]) :
                  Exists(staging, ParentFolder(mk_dirs[s][i]))

----------------------------------------------------------------------------
(* Properties of the plan (SpecPlan) *)

\* C7: with a custodian code supplied, and only then, the plan runs the
\* custodian code: whatever withmpi the caller asked for, fresh or
\* restarted, codes_info holds one entry, for the custodian code, with
\* withmpi False and the parameters ['run', <spec file name>].
C7_SupervisedPlan ==
    pc = "returned" =>
        /\ Len(codes_info) = 1
        /\ codes_info[1].code_uuid = CustodianCodeUuid
              <=> custodian_code # <<>>
        /\ custodian_code # <<>> =>
              /\ codes_info[1].code_uuid # VaspCodeUuid
              /\ "withmpi" \in DOMAIN codes_info[1]
              /\ codes_info[1].withmpi = FALSE
              /\ codes_info[1].cmdline_params = <<"run", "cstdn_spec.yaml">>

\* a restarted, supervised submission whose caller asked for MPI
C7_Witness ==
    /\ pc = "returned"
    /\ custodian_code # <<>>
    /\ withmpi
    /\ restart_folder
    /\ ~transport_failed
    /\ remote_copy_list # <<>>

----------------------------------------------------------------------------
(* Properties of the run line (SpecRun) *)

\* the token the launcher's i-th argument becomes for a job resource
ExpectedArg(arg, job) ==
    IF arg = "{tot_num_mpiprocs}"
    THEN ToString(job.num_machines * job.num_mpiprocs_per_machine)
    ELSE IF arg = "{num_machines}" THEN ToString(job.num_machines)
    ELSE IF arg = "{num_mpiprocs_per_machine}"
    THEN ToString(job.num_mpiprocs_per_machine)
    ELSE arg

\* C9: with withmpi the run line is the launcher's tokens, then the user's
\* extra parameters, then the executable as the single last token, each
\* part in its order; without withmpi it is the executable alone and
\* neither scheduler nor launcher are asked.
C9_RunLineOrder ==
    pc = "returned" =>
        IF withmpi
        THEN LET n == Len(mpirun_command)
                 m == Len(mpirun_extra_params)
             IN  /\ queried
                 /\ Len(run_line) = n + m + 1
                 /\ \A i \in 1..n :
                       run_line[i] =
                           ExpectedArg(mpirun_command[i], job_resource[1])
                 /\ \A j \in 1..m : run_line[n + j] = mpirun_extra_params[j]
                 /\ run_line[n + m + 1] = "vasp_std"
        ELSE /\ run_line = <<"vasp_std">>
             /\ ~queried
             /\ job_resource = <<>>

\* a parallel run line with launcher fields and extra parameters
C9_Witness ==
    /\ pc = "returned"
    /\ withmpi
    /\ mpirun_command[1] = "srun"
    /\ mpirun_extra_params # <<>>
    /\ job_resource[1].num_mpiprocs_per_machine = 2
    /\ Len(run_line) = 8

PerNode == "num_mpiprocs_per_machine"
DefaultKey == "default_mpiprocs_per_machine"

====
